---- MODULE Spec2Model ----
(***************************************************************************)
(* Model of the admission planners of bpmn-process-optimization:          *)
(*   V1 = src/OptimizedPlanner.py, V2 = src/OptimizedPlanner2.0.py,        *)
(*   H  = src/HeuristicPlanner.py.                                         *)
(* Time is counted in quarter hours (Q units per hour): every time the     *)
(* code computes from a multiple of 0.25 h is again a multiple of 0.25 h   *)
(* and is exact in binary floating point.                                  *)
(***************************************************************************)
EXTENDS Integers, Sequences, FiniteSets, TLC

VARIABLES variant, now, patient_diagnoses, patient_first_plan, last_replanned,
          patient_info, op, cases_to_plan, cases_to_replan, planned_cases,
          raised, simulator, schedule_out, last_emitted, committed

vars == <<variant, now, patient_diagnoses, patient_first_plan, last_replanned,
          patient_info, op, cases_to_plan, cases_to_replan, planned_cases,
          raised, simulator, schedule_out, last_emitted, committed>>

----------------------------------------------------------------------------
(* Units and bounded input sets *)

\* quarter hours per hour: the finest spacing the planners use is 0.25 h
Q == 4

Hours(h) == h * Q

Variants == {"V1", "V2", "H"}

Cases == {"c1", "c2"}

\* the diagnosis the simulator reports for each patient: one of the band
\* B1/B2, one of the band A3/A4/B3/B4; a patient not yet reported has none
TrueDiagnosis == [c \in Cases |->
    IF c = "c1" THEN "B1" ELSE "A3"]

\* a Python dict is a function with a finite domain
EmptyDict == [x \in {} |-> 0]

DictGet(d, k, default) == IF k \in DOMAIN d THEN d[k] ELSE default

DictSet(d, k, v) == [x \in (DOMAIN d) \cup {k} |-> IF x = k THEN v ELSE d[x]]

SeqRange(s) == {s[i] : i \in 1..Len(s)}

----------------------------------------------------------------------------
(* Python built-ins *)

\* round(x) of a non-negative float: to the nearest integer, ties to even
round(x) ==
    LET h == x \div Q
        r == x % Q
    IN  IF 2 * r < Q THEN Hours(h)
        ELSE IF 2 * r > Q THEN Hours(h + 1)
        ELSE IF h % 2 = 0 THEN Hours(h) ELSE Hours(h + 1)

max(a, b) == IF a >= b THEN a ELSE b

min(a, b) == IF a <= b THEN a ELSE b

\* a < b for two tuples of numbers of one length
TupleLess(a, b) ==
    \E i \in 1..Len(a) : a[i] < b[i] /\ \A j \in 1..(i - 1) : a[j] = b[j]

\* list.sort(key=...) / sorted: a stable sort of s, keys[i] the key of s[i]
StableSort(s, keys) ==
    LET Insert(sorted, x) ==
            LET k == Cardinality({i \in 1..Len(sorted) : ~TupleLess(keys[x], keys[sorted[i]])})
            IN  SubSeq(sorted, 1, k) \o <<x>> \o SubSeq(sorted, k + 1, Len(sorted))
        sort[i \in 0..Len(s)] ==
            IF i = 0 THEN <<>> ELSE Insert(sort[i - 1], i)
        order == sort[Len(s)]
    IN  [i \in 1..Len(s) |-> s[order[i]]]

----------------------------------------------------------------------------
(* Calendar *)

\* int(simulation_time % 24)
hour_of_day(t) == (t % Hours(24)) \div Q

\* int((simulation_time // 24) % 7)
day_of_week(t) == (t \div Hours(24)) % 7

\* the value target_day holds after "for day_offset in range(14)"
target_day_after_loop(t) == (day_of_week(t) + 13 + 1) % 7

----------------------------------------------------------------------------
(* OptimizedPlanner.plan, both files *)

InB12(diagnosis) == diagnosis \in {"B1", "B2"}

InA34B34(diagnosis) == diagnosis \in {"A3", "A4", "B3", "B4"}

\* priority of a new case (0 is planned earliest)
new_priority(target_day, diagnosis) ==
    IF target_day < 5
    THEN IF InB12(diagnosis) THEN 1
         ELSE IF InA34B34(diagnosis) THEN 0
         ELSE 2
    ELSE IF InB12(diagnosis) THEN 0
         ELSE IF InA34B34(diagnosis) THEN 1
         ELSE 2

\* priority of a replan candidate in OptimizedPlanner.py
replan_priority_V1(target_day, diagnosis, wait_time) ==
    IF target_day > 4
    THEN IF InB12(diagnosis) \/ wait_time > Hours(30) THEN 0
         ELSE IF InA34B34(diagnosis) THEN 1
         ELSE 2
    ELSE IF InB12(diagnosis) \/ wait_time > Hours(30) THEN 1
         ELSE IF InA34B34(diagnosis) THEN 0
         ELSE 2

\* priority of a replan candidate in OptimizedPlanner2.0.py
replan_priority_V2(target_day, diagnosis, wait_time) ==
    IF target_day < 5
    THEN IF InB12(diagnosis) \/ wait_time > Hours(30) THEN 0
         ELSE IF InA34B34(diagnosis) THEN 1
         ELSE 2
    ELSE IF InB12(diagnosis) \/ wait_time > Hours(30) THEN 1
         ELSE IF InA34B34(diagnosis) THEN 0
         ELSE 2

\* the spacing of new cases: i * 0.5 in OptimizedPlanner.py, i * 0.25 in 2.0
new_case_spacing(v) == IF v = "V1" THEN Q \div 2 ELSE Q \div 4

\* mutant: no cap on the replans of one call
replan_cap_none(v) == 1000

\* the cap on replans per call
replan_cap(v) == IF v = "V1" THEN 10 ELSE 35

\* "for case_id in cases_to_plan: if case_id not in self.patient_first_plan"
record_first_plan(first_plan, toPlan, t) ==
    [c \in (DOMAIN first_plan) \cup SeqRange(toPlan) |->
        IF c \in DOMAIN first_plan THEN first_plan[c] ELSE t]

\* new_cases as the planning half leaves it.  OptimizedPlanner.py appends once,
\* after its loops, the last case of cases_to_plan with the priority of that
\* case's diagnosis, and sorts; OptimizedPlanner2.0.py appends inside the loop
\* and does not sort.
new_cases_of(v, diagnoses, toPlan, t) ==
    LET target_day == target_day_after_loop(t)
        entry(c) == [case_id |-> c,
                     priority |-> new_priority(target_day, DictGet(diagnoses, c, "None"))]
    IN  IF v = "V1"
        THEN StableSort(<<entry(toPlan[Len(toPlan)])>>,
                        <<(<<entry(toPlan[Len(toPlan)]).priority>>)>>)
        ELSE [i \in 1..Len(toPlan) |-> entry(toPlan[i])]

\* the admission time of new case number i (from 0) before rounding
new_admission_time(v, i, priority, t) ==
    LET base_time == t + Hours(24)
        admission_time ==
            IF priority = 0 THEN base_time + i * new_case_spacing(v)
            ELSE IF priority = 1 THEN base_time + Hours(2) + i * new_case_spacing(v)
            ELSE base_time + Hours(4) + i * new_case_spacing(v)
    IN  max(admission_time, t + Hours(24))

\* "planned_cases.append((case_id, round(admission_time)))" for the new cases
plan_new_cases(v, new_cases, t) ==
    [i \in 1..Len(new_cases) |->
        [case_id |-> new_cases[i].case_id,
         time |-> round(new_admission_time(v, i - 1, new_cases[i].priority, t)),
         is_replan |-> FALSE]]

\* mutant: a cooldown of 12 h instead of 24 h
cooldown_skip_12h(replanned, c, t) ==
    LET last == DictGet(replanned, c, 0)
        time_since_replan == t - last
    IN  time_since_replan < Hours(12)

\* "if time_since_replan < 24: continue"
cooldown_skip(replanned, c, t) ==
    LET last == DictGet(replanned, c, 0)
        time_since_replan == t - last
    IN  time_since_replan < Hours(24)

\* replan_cases after the loop over cases_to_replan and the sort
replan_candidates(v, diagnoses, first_plan, replanned, toReplan, t) ==
    LET target_day == target_day_after_loop(t)
        kept == SelectSeq(toReplan, LAMBDA c : ~cooldown_skip(replanned, c, t))
        wait(c) == t - DictGet(first_plan, c, t)
        prio(c) == IF v = "V1"
                   THEN replan_priority_V1(target_day, DictGet(diagnoses, c, "None"), wait(c))
                   ELSE replan_priority_V2(target_day, DictGet(diagnoses, c, "None"), wait(c))
        cands == [i \in 1..Len(kept) |->
                    [case_id |-> kept[i], priority |-> prio(kept[i]),
                     wait_time |-> wait(kept[i])]]
    IN  StableSort(cands, [i \in 1..Len(cands) |->
                              <<cands[i].priority, -cands[i].wait_time>>])

\* the replan entries: the first max_replans candidates, one hour apart
plan_replans(v, replan_cases, t) ==
    LET base_time == t + Hours(24)
        max_replans == min(replan_cap(v), Len(replan_cases))
    IN  [i \in 1..max_replans |->
            [case_id |-> replan_cases[i].case_id,
             time |-> round(base_time + Hours(i - 1)),
             is_replan |-> TRUE]]

\* "self.last_replanned[case_id] = simulation_time" for every emitted replan
record_replanned(replanned, entries, t) ==
    [c \in (DOMAIN replanned) \cup {entries[i].case_id : i \in 1..Len(entries)} |->
        IF \E i \in 1..Len(entries) : entries[i].case_id = c THEN t ELSE replanned[c]]

\* Names a function reads before any assignment raise UnboundLocalError:
\* OptimizedPlanner.py reads diagnosis and case_id after a loop over
\* cases_to_plan that never ran; OptimizedPlanner2.0.py reads target_day and
\* base_time in the replanning half, for the first case that passes the cooldown.
plan_raises(v, replanned, toPlan, toReplan, t) ==
    /\ toPlan = <<>>
    /\ \/ v = "V1"
       \/ v = "V2" /\ \E i \in 1..Len(toReplan) : ~cooldown_skip(replanned, toReplan[i], t)

\* OptimizedPlanner.plan: the result and the state it leaves
plan_optimized(v, diagnoses, first_plan, replanned, toPlan, toReplan, t) ==
    IF plan_raises(v, replanned, toPlan, toReplan, t)
    THEN [planned |-> <<>>, raised |-> TRUE,
          first_plan |-> first_plan, last_replanned |-> replanned]
    ELSE
      LET first_plan1 == record_first_plan(first_plan, toPlan, t)
          fresh == IF toPlan = <<>> THEN <<>>
                   ELSE plan_new_cases(v, new_cases_of(v, diagnoses, toPlan, t), t)
          replan_cases == replan_candidates(v, diagnoses, first_plan1, replanned, toReplan, t)
          replans == plan_replans(v, replan_cases, t)
      IN  [planned |-> fresh \o replans, raised |-> FALSE,
           first_plan |-> first_plan1,
           last_replanned |-> record_replanned(replanned, replans, t)]

----------------------------------------------------------------------------
(* HeuristicPlanner.plan *)

\* calculate_priority, in quarter-hour units (the score times Q): the waiting
\* time counts 1 per hour, the severity 10 per step, a replan adds 20
calculate_priority(info, case_id, simulation_time, is_replan) ==
    LET known == case_id \in DOMAIN info
        arrival_time == IF known THEN info[case_id].arrival_time ELSE simulation_time
        waiting_time == simulation_time - arrival_time
        diagnosis == IF known THEN info[case_id].diagnosis ELSE "None"
        severity_score == IF diagnosis = "B1" THEN 3
                          ELSE IF diagnosis = "A2" THEN 2
                          ELSE IF diagnosis = "A3" THEN 1
                          ELSE 0
        replanning_penalty == IF is_replan THEN 20 ELSE 0
    IN  waiting_time + Hours(10 * severity_score) + Hours(replanning_penalty)

\* priority_dict.items(): keys in insertion order, a replan overwriting the
\* value of a key cases_to_plan already inserted
priority_items(info, toPlan, toReplan, t) ==
    LET keys == toPlan \o SelectSeq(toReplan, LAMBDA c : c \notin SeqRange(toPlan))
    IN  [i \in 1..Len(keys) |->
            [case_id |-> keys[i],
             is_replan |-> keys[i] \in SeqRange(toReplan),
             priority |-> calculate_priority(info, keys[i], t,
                                             keys[i] \in SeqRange(toReplan))]]

\* HeuristicPlanner.plan: the result and the state it leaves; sorted with
\* reverse=True keeps the first-listed of equal priorities first
plan_heuristic(info, first_plan, replanned, toPlan, toReplan, t) ==
    LET items == priority_items(info, toPlan, toReplan, t)
        sorted_cases == StableSort(items, [i \in 1..Len(items) |-> <<-items[i].priority>>])
        planned_time(priority) == IF priority > Hours(100) THEN t + Hours(24)
                                  ELSE t + Hours(48)
    IN  [planned |-> [i \in 1..Len(sorted_cases) |->
                        [case_id |-> sorted_cases[i].case_id,
                         time |-> planned_time(sorted_cases[i].priority),
                         is_replan |-> sorted_cases[i].is_replan]],
         raised |-> FALSE,
         first_plan |-> first_plan, last_replanned |-> replanned]

\* plan of the planner variant v
plan(v, diagnoses, first_plan, replanned, info, toPlan, toReplan, t) ==
    IF v = "H"
    THEN plan_heuristic(info, first_plan, replanned, toPlan, toReplan, t)
    ELSE plan_optimized(v, diagnoses, first_plan, replanned, toPlan, toReplan, t)

----------------------------------------------------------------------------
(* schedule *)

\* the resource types, in the order the capacity dicts list them
ResourceTypes == <<"OR", "A_BED", "B_BED", "INTAKE", "ER_PRACTITIONER">>

default_max(res_type) ==
    IF res_type = "OR" THEN 5
    ELSE IF res_type = "A_BED" THEN 30
    ELSE IF res_type = "B_BED" THEN 40
    ELSE IF res_type = "INTAKE" THEN 4
    ELSE IF res_type = "ER_PRACTITIONER" THEN 9
    ELSE 0

\* mutant: six operating rooms on weekday mornings
morning_res_six_rooms(target_day, res_type) ==
    IF target_day < 5
    THEN IF res_type = "OR" THEN 6
         ELSE IF res_type = "A_BED" THEN 25
         ELSE IF res_type = "B_BED" THEN 40
         ELSE IF res_type = "INTAKE" THEN 4
         ELSE 3
    ELSE IF res_type = "OR" THEN 2
         ELSE IF res_type = "A_BED" THEN 13
         ELSE IF res_type = "B_BED" THEN 40
         ELSE IF res_type = "INTAKE" THEN 3
         ELSE 6

morning_res(target_day, res_type) ==
    IF target_day < 5
    THEN IF res_type = "OR" THEN 3
         ELSE IF res_type = "A_BED" THEN 25
         ELSE IF res_type = "B_BED" THEN 40
         ELSE IF res_type = "INTAKE" THEN 4
         ELSE 3
    ELSE IF res_type = "OR" THEN 2
         ELSE IF res_type = "A_BED" THEN 13
         ELSE IF res_type = "B_BED" THEN 40
         ELSE IF res_type = "INTAKE" THEN 3
         ELSE 6

\* mutant: the weekday and the weekend table of the afternoon swapped
afternoon_res_swapped(target_day, res_type) ==
    IF target_day >= 5
    THEN IF res_type = "OR" THEN 3
         ELSE IF res_type = "A_BED" THEN 25
         ELSE IF res_type = "B_BED" THEN 40
         ELSE IF res_type = "INTAKE" THEN 4
         ELSE 3
    ELSE IF res_type = "OR" THEN 2
         ELSE IF res_type = "A_BED" THEN 13
         ELSE IF res_type = "B_BED" THEN 40
         ELSE IF res_type = "INTAKE" THEN 2
         ELSE 6

afternoon_res(target_day, res_type) ==
    IF target_day < 5
    THEN IF res_type = "OR" THEN 3
         ELSE IF res_type = "A_BED" THEN 25
         ELSE IF res_type = "B_BED" THEN 40
         ELSE IF res_type = "INTAKE" THEN 4
         ELSE 3
    ELSE IF res_type = "OR" THEN 2
         ELSE IF res_type = "A_BED" THEN 13
         ELSE IF res_type = "B_BED" THEN 40
         ELSE IF res_type = "INTAKE" THEN 2
         ELSE 6

\* mutant: the fallback of an unknown key, 0, for every type
get_current_zero(v, sim, time, res_type) == 0

\* get_current: OptimizedPlanner.py asks the simulator and falls back to the
\* maxima when it has none or the lookup raises; OptimizedPlanner2.0.py
\* always answers the maxima
get_current(v, sim, time, res_type) ==
    IF v = "V1" /\ sim.mode = "ok"
    THEN sim.count[res_type]
    ELSE default_max(res_type)

\* mutant: no comparison with the current count inside the near horizon
emits_always(v, sim, time, week_cutoff, res_type, count) == TRUE

\* "if count > current" inside the near horizon, unconditional beyond it
emits(v, sim, time, week_cutoff, res_type, count) ==
    IF time < week_cutoff
    THEN count > get_current(v, sim, time, res_type)
    ELSE TRUE

\* the triples one checkpoint appends, in dict order
checkpoint_triples(v, sim, time, week_cutoff, table) ==
    LET all == [i \in 1..Len(ResourceTypes) |->
                  [res_type |-> ResourceTypes[i], time |-> time,
                   count |-> table[ResourceTypes[i]]]]
    IN  SelectSeq(all, LAMBDA e : emits(v, sim, time, week_cutoff, e.res_type, e.count))

\* mutant: no gate on the hour
is_planning_time_always(simulation_time) == TRUE

\* "if hour_of_day != 18: return []"
is_planning_time(simulation_time) == hour_of_day(simulation_time) = 18

\* mutant: the day of the call instead of the day after it
target_day_of_today(simulation_time, day_offset) ==
    (day_of_week(simulation_time) + day_offset) % 7

\* target_day of one day of the horizon
target_day_of(simulation_time, day_offset) ==
    (day_of_week(simulation_time) + day_offset + 1) % 7

\* OptimizedPlanner.schedule
schedule_optimized(v, sim, simulation_time) ==
    IF ~is_planning_time(simulation_time)
    THEN <<>>
    ELSE
      LET next_day == simulation_time + Hours(24 - hour_of_day(simulation_time))
          week_cutoff == simulation_time + Hours(158)
          day(day_offset) ==
              LET target_day == target_day_of(simulation_time, day_offset)
                  target_date == next_day + Hours(day_offset * 24)
                  morning == target_date + Hours(8)
                  afternoon == target_date + Hours(14)
                  MorningTable == [r \in {ResourceTypes[i] : i \in 1..Len(ResourceTypes)} |->
                                      morning_res(target_day, r)]
                  AfternoonTable == [r \in {ResourceTypes[i] : i \in 1..Len(ResourceTypes)} |->
                                        afternoon_res(target_day, r)]
              IN  checkpoint_triples(v, sim, morning, week_cutoff, MorningTable)
                  \o checkpoint_triples(v, sim, afternoon, week_cutoff, AfternoonTable)
          upto[n \in 0..14] == IF n = 0 THEN <<>> ELSE upto[n - 1] \o day(n - 1)
      IN  upto[14]

\* HeuristicPlanner.schedule
schedule_heuristic(simulation_time) ==
    LET hour_of_week == simulation_time % Hours(168)
        is_weekday == (hour_of_week \div Hours(24)) < 5
        at(res, delay, n) == [res_type |-> res, time |-> simulation_time + Hours(delay),
                              count |-> n]
    IN  IF is_weekday
        THEN << at("OR", 158, 5), at("A_BED", 158, 30), at("B_BED", 158, 40),
                at("INTAKE", 158, 4), at("ER_PRACTITIONER", 158, 9),
                at("OR", 168, 1), at("INTAKE", 168, 1) >>
        ELSE << at("OR", 158, 1), at("A_BED", 158, 30), at("B_BED", 158, 10),
                at("INTAKE", 158, 1), at("ER_PRACTITIONER", 158, 4),
                at("OR", 168, 1), at("INTAKE", 168, 1) >>

\* schedule of the planner variant v
schedule(v, sim, simulation_time) ==
    IF v = "H"
    THEN schedule_heuristic(simulation_time)
    ELSE schedule_optimized(v, sim, simulation_time)

----------------------------------------------------------------------------
(* The inputs the simulator hands to the callbacks *)

\* the longest case list of one plan call
MaxBatch == 2

\* lists of distinct case ids
CaseLists ==
    UNION { {l \in [1..n -> Cases] : \A i, j \in 1..n : i # j => l[i] # l[j]} :
            n \in 0..MaxBatch }

\* the simulation times of plan calls: fractional and whole, inside the first
\* day, 18.5 h and 24 h after an earlier call, on weekdays and on a Saturday
PlanTimes == {Hours(0) + 2, Hours(24), Hours(42) + 2, Hours(48), Hours(138)}

\* the plan calls of the specification that explores schedule
FewCaseLists == {<<>>, <<"c1">>, <<"c2">>}

FewPlanTimes == {Hours(24)}

\* the last day (Monday = 0) with a schedule call
LastDay == 6

\* the simulation times of schedule calls: 18:00 of each day of a week, a
\* fractional time inside hour 18, and times outside hour 18
ScheduleTimes == {Hours(24 * d + 18) : d \in 0..LastDay}
                 \cup {Hours(18) + 2, Hours(17), Hours(48)}

\* what the simulator's schedule holds for each resource type
SimCounts ==
    { [r \in SeqRange(ResourceTypes) |-> 0],
      [r \in SeqRange(ResourceTypes) |->
          IF r = "OR" THEN 1 ELSE IF r = "A_BED" THEN 30 ELSE IF r = "B_BED" THEN 10
          ELSE IF r = "INTAKE" THEN 3 ELSE 4],
      [r \in SeqRange(ResourceTypes) |-> default_max(r)] }

\* the planner has no simulator, the lookup raises, or the lookup answers
NoSimulator == [mode |-> "absent", count |-> [r \in SeqRange(ResourceTypes) |-> 0]]

Simulators ==
    { [mode |-> m, count |-> [r \in SeqRange(ResourceTypes) |-> 0]] : m \in {"absent", "raises"} }
    \cup { [mode |-> "ok", count |-> n] : n \in SimCounts }

\* the schedule calls of the specification that explores plan
FewScheduleTimes == {Hours(18), Hours(48)}

\* the last day (Monday = 0) of the schedule calls of successive days
LastCallDay == 3

\* 18:00 of successive days, a fractional time inside hour 18 and a time
\* outside hour 18
SuccessiveTimes == {Hours(24 * d + 18) : d \in 0..LastCallDay}
                   \cup {Hours(18) + 2, Hours(48)}

\* no simulator, and one whose schedule holds 0 of every resource type
SuccessiveSimulators ==
    {NoSimulator, [mode |-> "ok", count |-> [r \in SeqRange(ResourceTypes) |-> 0]]}

\* patient_info of HeuristicPlanner: nothing in the class fills it
PatientInfos ==
    { EmptyDict,
      [c \in Cases |-> [arrival_time |-> 0, diagnosis |-> TrueDiagnosis[c]]] }

\* what a lifecycle event carries: no data, data without a diagnosis, a diagnosis
Payloads == {"none", "other", "diagnosis"}

\* the most cases one plan call lists for replanning: above both replan caps
MaxPool == 36

\* ids of planned cases that wait for their admission; nothing was reported
\* about them, so they have no diagnosis on record
PoolNames ==
    <<
       "r01", "r02", "r03", "r04", "r05", "r06", "r07", "r08", "r09",
       "r10", "r11", "r12", "r13", "r14", "r15", "r16", "r17", "r18",
       "r19", "r20", "r21", "r22", "r23", "r24", "r25", "r26", "r27",
       "r28", "r29", "r30", "r31", "r32", "r33", "r34", "r35", "r36",
       "r37", "r38", "r39", "r40"
    >>

Pool == SubSeq(PoolNames, 1, MaxPool)

\* cases_to_replan of the calls that reach the replan caps: the first n
\* waiting cases, for n at and above each cap
PoolLists ==
    {SubSeq(Pool, 1, n) : n \in {0, 10, 11, 35, MaxPool}}

PoolPlanTimes == {Hours(24), Hours(30), Hours(48)}

----------------------------------------------------------------------------
(* State machine *)

Init ==
    /\ variant \in Variants
    /\ now = 0
    /\ patient_diagnoses = EmptyDict
    /\ patient_first_plan = EmptyDict
    /\ last_replanned = EmptyDict
    /\ patient_info \in (IF variant = "H" THEN PatientInfos ELSE {EmptyDict})
    /\ op = "init"
    /\ cases_to_plan = <<>>
    /\ cases_to_replan = <<>>
    /\ planned_cases = <<>>
    /\ raised = FALSE
    /\ simulator = NoSimulator
    /\ schedule_out = <<>>
    /\ last_emitted = EmptyDict
    /\ committed = {}

\* report: OptimizedPlanner.py stores data['diagnosis'] when data carries one;
\* OptimizedPlanner2.0.py tests element.data["diagnosis"], a KeyError when the
\* data is non-empty and has no such key; HeuristicPlanner only logs
report_raises(v, payload) == v = "V2" /\ payload = "other"

report_diagnoses(v, diagnoses, case_id, payload) ==
    IF v \in {"V1", "V2"} /\ payload = "diagnosis"
    THEN DictSet(diagnoses, case_id, TrueDiagnosis[case_id])
    ELSE diagnoses

Report(case_id, payload) ==
    /\ patient_diagnoses' = report_diagnoses(variant, patient_diagnoses, case_id, payload)
    /\ raised' = report_raises(variant, payload)
    /\ op' = "report"
    /\ cases_to_plan' = <<case_id>>
    /\ cases_to_replan' = <<>>
    /\ planned_cases' = <<>>
    /\ schedule_out' = <<>>
    /\ UNCHANGED <<variant, now, patient_first_plan, last_replanned, patient_info,
                   simulator, last_emitted>>

\* the time of the last replan entry emitted for each case (history)
note_emitted(emitted, planned, t) ==
    [c \in (DOMAIN emitted) \cup {planned[i].case_id : i \in {j \in 1..Len(planned) : planned[j].is_replan}} |->
        IF \E i \in 1..Len(planned) : planned[i].is_replan /\ planned[i].case_id = c
        THEN t ELSE emitted[c]]

Plan(toPlan, toReplan, t) ==
    /\ t >= now
    /\ SeqRange(toPlan) \cap SeqRange(toReplan) = {}
    /\ \E r \in {plan(variant, patient_diagnoses, patient_first_plan, last_replanned,
                      patient_info, toPlan, toReplan, t)} :
           /\ planned_cases' = r.planned
           /\ raised' = r.raised
           /\ patient_first_plan' = r.first_plan
           /\ last_replanned' = r.last_replanned
           /\ last_emitted' = note_emitted(last_emitted, r.planned, t)
    /\ now' = t
    /\ op' = "plan"
    /\ cases_to_plan' = toPlan
    /\ cases_to_replan' = toReplan
    /\ schedule_out' = <<>>
    /\ UNCHANGED <<variant, patient_diagnoses, patient_info, simulator>>

Schedule(sim, t) ==
    /\ t >= now
    /\ schedule_out' = schedule(variant, sim, t)
    /\ simulator' = sim
    /\ now' = t
    /\ op' = "schedule"
    /\ raised' = FALSE
    /\ cases_to_plan' = <<>>
    /\ cases_to_replan' = <<>>
    /\ planned_cases' = <<>>
    /\ UNCHANGED <<variant, patient_diagnoses, patient_first_plan, last_replanned,
                   patient_info, last_emitted>>

\* the triples schedule calls have returned, each with the time of its call
\* (history); only the specification of successive schedule calls records it
note_committed(history, out, t) ==
    history \cup {[res_type |-> out[i].res_type, time |-> out[i].time,
                   count |-> out[i].count, at |-> t] : i \in 1..Len(out)}

ReportStep(cases) ==
    \E c \in cases, payload \in Payloads :
        Report(c, payload) /\ UNCHANGED committed

PlanStep(lists, times) ==
    \E toPlan \in lists, toReplan \in lists, t \in times :
        Plan(toPlan, toReplan, t) /\ UNCHANGED committed

ScheduleStep(sims, times) ==
    \E sim \in sims, t \in times :
        Schedule(sim, t) /\ UNCHANGED committed

\* schedule calls whose baseline is the fixed maxima: OptimizedPlanner2.0.py
\* with any simulator, OptimizedPlanner.py with none or with one whose lookup
\* raises (HeuristicPlanner.schedule has no baseline)
ObservedScheduleStep(sims, times) ==
    \E sim \in sims, t \in times :
        /\ variant = "V2" \/ (variant = "V1" /\ sim.mode # "ok")
        /\ Schedule(sim, t)
        /\ committed' = note_committed(committed, schedule_out', t)

\* the callbacks in any order, with every plan input and few schedule inputs
Next ==
    \/ ReportStep(Cases)
    \/ PlanStep(CaseLists, PlanTimes)
    \/ ScheduleStep({NoSimulator}, FewScheduleTimes)

Spec == Init /\ [][Next]_vars

\* the callbacks in any order, with few plan inputs and every schedule input
NextSchedule ==
    \/ ReportStep({"c1"})
    \/ PlanStep(FewCaseLists, FewPlanTimes)
    \/ ScheduleStep(Simulators, ScheduleTimes)

SpecSchedule == Init /\ [][NextSchedule]_vars

\* plan calls that list many cases for replanning, all at once
PlanPoolStep ==
    \E toPlan \in {<<>>, <<"c1">>}, toReplan \in PoolLists, t \in PoolPlanTimes :
        Plan(toPlan, toReplan, t) /\ UNCHANGED committed

\* the callbacks in any order, with long replan lists
NextReplanCap ==
    \/ ReportStep({"c1"})
    \/ PlanPoolStep
    \/ ScheduleStep({NoSimulator}, FewScheduleTimes)

SpecReplanCap == Init /\ [][NextReplanCap]_vars

\* the callbacks in any order, the schedule calls of successive days recorded
NextSuccessive ==
    \/ ReportStep({"c1"})
    \/ PlanStep(FewCaseLists, FewPlanTimes)
    \/ ObservedScheduleStep(SuccessiveSimulators, SuccessiveTimes)

SpecSuccessive == Init /\ [][NextSuccessive]_vars

----------------------------------------------------------------------------
(* Properties *)

\* the (case_id, admission_time) pairs of a result, without their order
Entries(planned) == {<<planned[i].case_id, planned[i].time>> : i \in 1..Len(planned)}

\* every ordering of a list
Orderings(l) == {p \in [1..Len(l) -> SeqRange(l)] : SeqRange(p) = SeqRange(l)}

HasReplanEntry(planned, c) ==
    \E i \in 1..Len(planned) : planned[i].case_id = c /\ planned[i].is_replan

OptimizedVariant == variant \in {"V1", "V2"}

\* C1: every entry plan returns, fresh or replan, on any variant and at whole
\* or fractional simulation times, has admission_time >= simulation_time + 24.
C1_LeadTime ==
    op = "plan" =>
        \A i \in 1..Len(planned_cases) : planned_cases[i].time >= now + Hours(24)

\* C2: a case that got a replan entry from a call at time t gets none from a
\* later call of OptimizedPlanner.plan at a time less than 24 h after t.
C2_ReplanCooldown ==
    [][ (op' = "plan" /\ OptimizedVariant) =>
           \A c \in DOMAIN last_emitted :
               HasReplanEntry(planned_cases', c) => now' - last_emitted[c] >= Hours(24)
      ]_vars

\* C2 witness: a case replanned less than 24 h ago is listed again and skipped
C2_Witness ==
    /\ op = "plan" /\ OptimizedVariant /\ ~raised
    /\ \E c \in SeqRange(cases_to_replan) :
          /\ c \in DOMAIN last_emitted
          /\ now - last_emitted[c] > 0
          /\ now - last_emitted[c] < Hours(24)
          /\ ~HasReplanEntry(planned_cases, c)
    /\ Len(planned_cases) > 0

\* the count in force before a schedule call: the simulator's when the lookup
\* answers, the fixed maximum of the type otherwise
Authoritative(res_type) ==
    IF simulator.mode = "ok" THEN simulator.count[res_type]
    ELSE IF res_type = "OR" THEN 5
    ELSE IF res_type = "A_BED" THEN 30
    ELSE IF res_type = "B_BED" THEN 40
    ELSE IF res_type = "INTAKE" THEN 4
    ELSE 9

\* C3: a triple schedule emits less than 158 h ahead never carries less than
\* the count that was in force.
C3_NearHorizonNoDecrease ==
    op = "schedule" =>
        \A i \in 1..Len(schedule_out) :
            schedule_out[i].time - now < Hours(158) =>
                schedule_out[i].count >= Authoritative(schedule_out[i].res_type)

\* C3 witness: a near-horizon triple was emitted, above what was in force,
\* while another type's table value, not above it, was held back
C3_Witness ==
    /\ op = "schedule" /\ simulator.mode = "ok"
    /\ \E i \in 1..Len(schedule_out) :
          /\ schedule_out[i].time - now < Hours(158)
          /\ schedule_out[i].res_type = "OR"
          /\ schedule_out[i].count > simulator.count["OR"]
    /\ ~\E i \in 1..Len(schedule_out) :
          /\ schedule_out[i].time - now < Hours(158)
          /\ schedule_out[i].res_type = "A_BED"

\* C4: every triple schedule emits, on any variant, has a count between 0
\* and the maximum of its type: 5, 30, 40, 4, 9.
C4_CountWithinMaximum ==
    op = "schedule" =>
        \A i \in 1..Len(schedule_out) :
            LET e == schedule_out[i]
            IN  /\ e.count >= 0
                /\ e.res_type = "OR" => e.count <= 5
                /\ e.res_type = "A_BED" => e.count <= 30
                /\ e.res_type = "B_BED" => e.count <= 40
                /\ e.res_type = "INTAKE" => e.count <= 4
                /\ e.res_type = "ER_PRACTITIONER" => e.count <= 9
                /\ e.res_type \in SeqRange(ResourceTypes)

\* C4 witness: a schedule call emitted operating-room triples
C4_Witness ==
    /\ op = "schedule"
    /\ \E i \in 1..Len(schedule_out) :
          schedule_out[i].res_type = "OR" /\ schedule_out[i].count > 0

\* C5: OptimizedPlanner.schedule called outside hour 18 returns an empty list
\* and leaves the diagnoses, first plan times and last replan times as they were.
C5_IdleOutsidePlanningHour ==
    [][ (op' = "schedule" /\ OptimizedVariant /\ (now' % (24 * Q)) \div Q # 18) =>
           /\ schedule_out' = <<>>
           /\ UNCHANGED <<patient_diagnoses, patient_first_plan, last_replanned>>
      ]_vars

\* C5 witness: schedule was called outside hour 18 with cases on record
C5_Witness ==
    /\ op = "schedule" /\ OptimizedVariant
    /\ (now % (24 * Q)) \div Q # 18
    /\ DOMAIN patient_first_plan # {}
    /\ DOMAIN last_replanned # {}
    /\ schedule_out = <<>>

\* C6: a plan call with no replans and a non-empty list of distinct cases to
\* plan returns exactly one entry per listed case and nothing else, each at
\* least 24 h ahead.
C6_OneEntryPerNewCase ==
    (op = "plan" /\ cases_to_replan = <<>> /\ cases_to_plan # <<>>) =>
        /\ \A c \in SeqRange(cases_to_plan) :
              Cardinality({i \in 1..Len(planned_cases) : planned_cases[i].case_id = c}) = 1
        /\ \A i \in 1..Len(planned_cases) :
              /\ planned_cases[i].case_id \in SeqRange(cases_to_plan)
              /\ planned_cases[i].time >= now + Hours(24)

\* C7: plan returns a list for every input; it never fails.
C7_PlanNeverFails ==
    op = "plan" => ~raised

\* the weekday and the weekend capacity tables, by checkpoint hour
WeekdayCount(hour, res_type) ==
    IF res_type = "OR" THEN 3
    ELSE IF res_type = "A_BED" THEN 25
    ELSE IF res_type = "B_BED" THEN 40
    ELSE IF res_type = "INTAKE" THEN 4
    ELSE 3

WeekendCount(hour, res_type) ==
    IF res_type = "OR" THEN 2
    ELSE IF res_type = "A_BED" THEN 13
    ELSE IF res_type = "B_BED" THEN 40
    ELSE IF res_type = "INTAKE" THEN (IF hour = 8 THEN 3 ELSE 2)
    ELSE 6

\* C8: a triple OptimizedPlanner.schedule emits at hour 18 is for 08:00 or
\* 14:00 of a day, and carries the weekday table's count when that calendar
\* day (Monday = 0) is a weekday and the weekend table's count otherwise.
C8_TableMatchesCalendarDay ==
    (op = "schedule" /\ OptimizedVariant) =>
        \A i \in 1..Len(schedule_out) :
            LET e == schedule_out[i]
                day == (e.time \div (24 * Q)) % 7
                hour == (e.time % (24 * Q)) \div Q
            IN  /\ hour \in {8, 14}
                /\ day < 5 => e.count = WeekdayCount(hour, e.res_type)
                /\ day >= 5 => e.count = WeekendCount(hour, e.res_type)

\* C8 witness: a call on a Saturday at hour 18 emitted triples for a Sunday
\* and for a Monday, both checkpoints
C8_Witness ==
    /\ op = "schedule" /\ OptimizedVariant
    /\ (now \div (24 * Q)) % 7 = 5
    /\ \E i, j \in 1..Len(schedule_out) :
          /\ (schedule_out[i].time \div (24 * Q)) % 7 = 6
          /\ (schedule_out[i].time % (24 * Q)) \div Q = 14
          /\ schedule_out[i].res_type = "INTAKE" /\ schedule_out[i].count = 2
          /\ (schedule_out[j].time \div (24 * Q)) % 7 = 0
          /\ (schedule_out[j].time % (24 * Q)) \div Q = 8
          /\ schedule_out[j].res_type = "INTAKE" /\ schedule_out[j].count = 4

\* C9: the entries plan returns do not depend on the order in which the same
\* case ids are listed in cases_to_plan and cases_to_replan.
C9_OrderIndependent ==
    [][ op' = "plan" =>
           \A p \in Orderings(cases_to_plan'), q \in Orderings(cases_to_replan') :
               Entries(plan(variant, patient_diagnoses, patient_first_plan,
                            last_replanned, patient_info, p, q, now').planned)
                   = Entries(planned_cases')
      ]_vars

\* C10: a case listed in cases_to_replan that never got a replan entry is not
\* skipped by the cooldown, at any simulation time, also before hour 24.
C10_NeverReplannedNotSkipped ==
    [][ (op' = "plan" /\ ~raised') =>
           \A c \in SeqRange(cases_to_replan') :
               c \notin DOMAIN last_emitted => HasReplanEntry(planned_cases', c)
      ]_vars

\* C11: every case a call of OptimizedPlanner.plan that returns lists in
\* cases_to_plan or in cases_to_replan has a first plan time after the call:
\* the time of this call when the ledger had none for it (the ledger then
\* holds every case listed before, so this is the first call that lists it),
\* its earlier value otherwise.
C11_FirstPlanTimeRecorded ==
    [][ (op' = "plan" /\ OptimizedVariant /\ ~raised') =>
           \A c \in SeqRange(cases_to_plan') \cup SeqRange(cases_to_replan') :
               /\ c \in DOMAIN patient_first_plan'
               /\ patient_first_plan'[c] =
                      IF c \in DOMAIN patient_first_plan THEN patient_first_plan[c] ELSE now'
      ]_vars

\* C12: a call of OptimizedPlanner.plan returns at most 10 (OptimizedPlanner.py)
\* or 35 (OptimizedPlanner2.0.py) replan entries; the last replan time is the
\* time of the call for exactly the cases that got a replan entry and is as
\* it was for every other case, so a candidate that passed the cooldown and
\* was dropped by the cap passes the cooldown at any later time too.
C12_ReplanCap ==
    [][ (op' = "plan" /\ OptimizedVariant) =>
           LET replans == {i \in 1..Len(planned_cases') : planned_cases'[i].is_replan}
               emitted == {planned_cases'[i].case_id : i \in replans}
               others == ((DOMAIN last_replanned) \cup (DOMAIN last_replanned')
                          \cup SeqRange(cases_to_replan')) \ emitted
               since(ledger, c) == now' - (IF c \in DOMAIN ledger THEN ledger[c] ELSE 0)
           IN  /\ Cardinality(replans) <= (IF variant = "V1" THEN 10 ELSE 35)
               /\ \A c \in emitted :
                     c \in DOMAIN last_replanned' /\ last_replanned'[c] = now'
               /\ \A c \in others :
                     /\ c \in DOMAIN last_replanned' <=> c \in DOMAIN last_replanned
                     /\ c \in DOMAIN last_replanned => last_replanned'[c] = last_replanned[c]
                     /\ since(last_replanned, c) >= 24 * Q => since(last_replanned', c) >= 24 * Q
      ]_vars

\* C12 witness: OptimizedPlanner2.0 was handed more than 35 candidates, emitted
\* 35 replans and dropped a candidate, which still has no last replan time
C12_Witness ==
    /\ op = "plan" /\ variant = "V2" /\ ~raised
    /\ Len(cases_to_replan) > 35
    /\ Cardinality({i \in 1..Len(planned_cases) : planned_cases[i].is_replan}) = 35
    /\ \E c \in SeqRange(cases_to_replan) :
          /\ ~HasReplanEntry(planned_cases, c)
          /\ c \notin DOMAIN last_replanned
          /\ now >= 24 * Q

\* the triples of one result for a weekday (Monday = 0 .. Friday = 4) and for
\* a weekend day, by the calendar day of their effective time
OnWeekday(e) == (e.time \div (24 * Q)) % 7 < 5

SameCheckpoint(e, f) ==
    /\ e.res_type = f.res_type
    /\ (e.time % (24 * Q)) = (f.time % (24 * Q))

\* C13 as stated: of two triples OptimizedPlanner.schedule returns for one
\* resource type and one checkpoint hour, the one for a weekday carries at
\* least the count of the one for a weekend day, for all five resource types.
C13_WeekdayAtLeastWeekend ==
    (op = "schedule" /\ OptimizedVariant) =>
        \A i, j \in 1..Len(schedule_out) :
            (/\ SameCheckpoint(schedule_out[i], schedule_out[j])
             /\ OnWeekday(schedule_out[i]) /\ ~OnWeekday(schedule_out[j]))
            => schedule_out[i].count >= schedule_out[j].count

\* C13 amended: the weekday count is at least the weekend count for OR, A_BED,
\* B_BED and INTAKE at both checkpoints; for ER_PRACTITIONER the weekday
\* count, 3, is below the weekend count, 6.
C13_WeekdayAtLeastWeekendExceptER ==
    (op = "schedule" /\ OptimizedVariant) =>
        \A i, j \in 1..Len(schedule_out) :
            (/\ SameCheckpoint(schedule_out[i], schedule_out[j])
             /\ OnWeekday(schedule_out[i]) /\ ~OnWeekday(schedule_out[j]))
            => IF schedule_out[i].res_type = "ER_PRACTITIONER"
               THEN schedule_out[i].count = 3 /\ schedule_out[j].count = 6
               ELSE schedule_out[i].count >= schedule_out[j].count

\* C13 witness: one result holds, for 14:00 of a weekday and of a weekend day,
\* INTAKE with 4 and 2 and ER_PRACTITIONER with 3 and 6
C13_Witness ==
    /\ op = "schedule" /\ OptimizedVariant
    /\ \E i, j, k, l \in 1..Len(schedule_out) :
          /\ SameCheckpoint(schedule_out[i], schedule_out[j])
          /\ OnWeekday(schedule_out[i]) /\ ~OnWeekday(schedule_out[j])
          /\ schedule_out[i].res_type = "INTAKE"
          /\ (schedule_out[i].time % (24 * Q)) \div Q = 14
          /\ schedule_out[i].count = 4 /\ schedule_out[j].count = 2
          /\ SameCheckpoint(schedule_out[k], schedule_out[l])
          /\ OnWeekday(schedule_out[k]) /\ ~OnWeekday(schedule_out[l])
          /\ schedule_out[k].res_type = "ER_PRACTITIONER"
          /\ schedule_out[k].count = 3 /\ schedule_out[l].count = 6

\* two cases with the same waiting time and the same diagnosis on record
SameWaitAndDiagnosis(c, d) ==
    IF c \in DOMAIN patient_info /\ d \in DOMAIN patient_info
    THEN patient_info[c] = patient_info[d]
    ELSE c \notin DOMAIN patient_info /\ d \notin DOMAIN patient_info

\* C14: in HeuristicPlanner the score of a case with is_replan = true is not
\* greater than its score with is_replan = false, and in the list plan returns
\* (most urgent first) no replan case stands before a new case of the same
\* waiting time and the same diagnosis.
C14_ReplanPenalized ==
    (op = "plan" /\ variant = "H") =>
        /\ \A c \in SeqRange(cases_to_replan) :
              calculate_priority(patient_info, c, now, TRUE)
                  <= calculate_priority(patient_info, c, now, FALSE)
        /\ \A i, j \in 1..Len(planned_cases) :
              (/\ i < j
               /\ planned_cases[i].is_replan /\ ~planned_cases[j].is_replan
               /\ SameWaitAndDiagnosis(planned_cases[i].case_id, planned_cases[j].case_id))
              => FALSE

\* the priority tier OptimizedPlanner.plan gives a new case at the time now
TierOf(c) ==
    new_priority(target_day_after_loop(now), DictGet(patient_diagnoses, c, "None"))

\* C15: of the entries one call of OptimizedPlanner.plan returns for the cases
\* of cases_to_plan, no two for distinct cases of the same priority tier carry
\* the same admission time.
C15_FreshCasesStaggered ==
    (op = "plan" /\ OptimizedVariant /\ ~raised) =>
        \A i, j \in 1..Len(planned_cases) :
            (/\ i # j
             /\ ~planned_cases[i].is_replan /\ ~planned_cases[j].is_replan
             /\ planned_cases[i].case_id # planned_cases[j].case_id
             /\ TierOf(planned_cases[i].case_id) = TierOf(planned_cases[j].case_id))
            => planned_cases[i].time # planned_cases[j].time

\* C16: of the triples the schedule calls of OptimizedPlanner2.0.py have
\* returned, any two for the same resource type and the same effective time
\* carry the same count, and every one lies at least 158 h after its call
\* (stated after each schedule call: no other step adds a triple).
C16_CommittedCountsStable ==
    (variant = "V2" /\ op = "schedule") =>
        /\ \A e, f \in committed :
              (e.res_type = f.res_type /\ e.time = f.time) => e.count = f.count
        /\ \A e \in committed : e.time - e.at >= 158 * Q

\* C16 witness: calls at hour 18 of two different days returned a triple for
\* the same resource type and effective time, and the later call is the last
C16_Witness ==
    /\ variant = "V2" /\ op = "schedule"
    /\ \E e, f \in committed :
          /\ e.res_type = f.res_type /\ e.time = f.time
          /\ e.at < f.at /\ f.at = now
          /\ (e.at % (24 * Q)) \div Q = 18 /\ (f.at % (24 * Q)) \div Q = 18
          /\ e.res_type = "INTAKE" /\ e.count = 2

====
